---- MODULE Spec2Model ----
(***************************************************************************)
(* toJSON(value, invokeFns) of compiler/packages/sprout/src/shared-runtime *)
(* as a state machine: JSON.stringify's depth-first walk, one step per     *)
(* call of the replacer (lines 241-269), over a heap of objects with       *)
(* reference identity.                                                     *)
(***************************************************************************)
EXTENDS Integers, Sequences, FiniteSets, TLC

VARIABLES
  heap,       \* the objects that exist, by reference (index); grows with the replacer's fresh objects
  value,      \* toJSON's first argument
  invokeFns,  \* toJSON's second argument
  seen,       \* the Map of line 239: key (a value) -> id
  stack,      \* JSON.stringify's open objects/arrays, innermost last
  out,        \* the text produced so far
  pc,         \* "idle" | "call" | "walk" | "done" | "RangeError" | "TypeError"
  calls,      \* how many times each function of the input was called in this toJSON call
  ncalls,     \* toJSON calls started
  history     \* the calls that ended: <<value, invokeFns, pc, out>>

vars == <<heap, value, invokeFns, seen, stack, out, pc, calls, ncalls, history>>

(* ------------------------------ bounds -------------------------------- *)
NRefs == 3        \* objects of the input graph
MaxKids == 2      \* entries of the largest input object
MaxCalls == 2     \* toJSON calls in one behaviour of SpecCalls
MaxParams == 2    \* declared parameters of the input's functions

\* The engine's call-stack limit, scaled to the input: no walk of an input
\* graph that ends nests this deep, so a walk reaches it only when its
\* recursion does not end: "RangeError: Maximum call stack size exceeded".
StackLimit == 4 * NRefs + 2

(* ------------------------------ values -------------------------------- *)
Null == [t |-> "null", n |-> 0, s |-> ""]
Undefined == [t |-> "undefined", n |-> 0, s |-> ""]
Num(i) == [t |-> "number", n |-> i, s |-> ""]
Str(x) == [t |-> "string", n |-> 0, s |-> x]
Bool(b) == [t |-> "boolean", n |-> IF b THEN 1 ELSE 0, s |-> ""]
Ref(r) == [t |-> "ref", n |-> r, s |-> ""]

Obj(k, ks, mks, vs, len, r) ==
  [kind |-> k, keys |-> ks, mkeys |-> mks, vals |-> vs, length |-> len, ret |-> r]
Record(ks, vs) == Obj("object", ks, <<>>, vs, 0, Undefined)
Array(vs) == Obj("array", <<>>, <<>>, vs, 0, Undefined)
MapObj(mks, vs) == Obj("map", <<>>, mks, vs, 0, Undefined)
SetObj(vs) == Obj("set", <<>>, <<>>, vs, 0, Undefined)
Function(len, r) == Obj("function", <<>>, <<>>, <<>>, len, r)

\* typeof val, lines 242 and 251: null is an "object"
TypeOf(val) ==
  IF val.t = "ref"
  THEN (IF heap[val.n].kind = "function" THEN "function" ELSE "object")
  ELSE IF val.t = "null" THEN "object" ELSE val.t

\* val instanceof Map / Set, lines 255 and 260
InstanceOf(val, k) == val.t = "ref" /\ heap[val.n].kind = k

(* ------------------------------- seen --------------------------------- *)
\* new Map(), line 239
NewMap == << >>

\* SeenGet keyed by structure instead of identity: a key whose object equals val's answers for it
SeenGetByStructure(m, val) ==
  IF val \in DOMAIN m THEN Num(m[val])
  ELSE IF val.t = "ref" /\ \E k \in DOMAIN m : k.t = "ref" /\ heap[k.n] = heap[val.n]
  THEN Num(m[CHOOSE k \in DOMAIN m : k.t = "ref" /\ heap[k.n] = heap[val.n]])
  ELSE Undefined

\* seen.get(val), line 252: undefined when val is no key
SeenGet(m, val) == IF val \in DOMAIN m THEN Num(m[val]) ELSE Undefined

\* seen.size
SeenSize(m) == Cardinality(DOMAIN m)

\* SeenSet with the size read after the insertion: ids from 1
SeenSetSizeAfter(m, val) ==
  [k \in DOMAIN m \cup {val} |-> IF k = val THEN Cardinality(DOMAIN m) + 1 ELSE m[k]]

\* seen.set(val, seen.size), line 266
SeenSet(m, val) ==
  [k \in DOMAIN m \cup {val} |-> IF k = val THEN SeenSize(m) ELSE m[k]]

(* ------------------------------- text --------------------------------- *)
\* JSON's QuoteJSONString; no string of the model holds a character it escapes
Quote(x) == "\"" \o x \o "\""

\* JSON's literal of a primitive
Literal(v) ==
  CASE v.t = "null" -> "null"
    [] v.t = "boolean" -> (IF v.n = 1 THEN "true" ELSE "false")
    [] v.t = "number" -> ToString(v.n)
    [] v.t = "string" -> Quote(v.s)

\* line 249
FunctionPlaceholder(len) == "[[ function params=" \o ToString(len) \o " ]]"

\* line 254
CyclicRef(id) == "[[ cyclic ref *" \o ToString(id.n) \o " ]]"

(* ----------------------------- replacer ------------------------------- *)
\* MapWrapper with the entries in reverse insertion order
MapWrapperReversed(o, base) ==
  LET n == Len(o.vals) IN
    [i \in 1..n |-> Array(<<o.mkeys[i], o.vals[i]>>)]
    \o << Array([i \in 1..n |-> Ref(base + n + 1 - i)]),
          Record(<<"kind", "value">>, <<Str("Map"), Ref(base + n + 1)>>) >>

\* The objects line 256-259 creates for a Map at heap size base: one array
\* per entry (Array.from(val.entries())), the array of them, the record.
MapWrapper(o, base) ==
  LET n == Len(o.vals) IN
    [i \in 1..n |-> Array(<<o.mkeys[i], o.vals[i]>>)]
    \o << Array([i \in 1..n |-> Ref(base + i)]),
          Record(<<"kind", "value">>, <<Str("Map"), Ref(base + n + 1)>>) >>

\* The objects lines 261-264 create for a Set: the array of its values, the record.
SetWrapper(o, base) ==
  << Array(o.vals),
     Record(<<"kind", "value">>, <<Str("Set"), Ref(base + 1)>>) >>

\* FunctionWrapper with the result under the Map branch's field name
FunctionWrapperAsValue(o) ==
  << Record(<<"kind", "value">>, <<Str("Function"), o.ret>>) >>

\* The record of lines 244-247: result is what val() returned.
FunctionWrapper(o) ==
  << Record(<<"kind", "result">>, <<Str("Function"), o.ret>>) >>

\* Invokes without the test of the declared parameter count
InvokesAnyArity(val) == TypeOf(val) = "function" /\ invokeFns

\* line 243: the function is called
Invokes(val) ==
  TypeOf(val) = "function" /\ heap[val.n].length = 0 /\ invokeFns

\* line 253: id != null
Revisited(val) == SeenGet(seen, val) \notin {Null, Undefined}

\* The replacer of lines 241-269 on val: what it returns (ret), the objects
\* it creates (alloc), seen after it, and the function it called (called).
Replacer(val) ==
  LET base == Len(heap)
      R(ret, alloc, sn, called) ==
        [ret |-> ret, alloc |-> alloc, seen |-> sn, called |-> called]
  IN
  IF TypeOf(val) = "function" THEN
    IF Invokes(val)
    THEN R(Ref(base + 1), FunctionWrapper(heap[val.n]), seen, {val.n})
    ELSE R(Str(FunctionPlaceholder(heap[val.n].length)), <<>>, seen, {})
  ELSE IF TypeOf(val) = "object" THEN
    IF Revisited(val)
    THEN R(Str(CyclicRef(SeenGet(seen, val))), <<>>, seen, {})
    ELSE IF InstanceOf(val, "map")
    THEN R(Ref(base + Len(heap[val.n].vals) + 2),
           MapWrapper(heap[val.n], base), seen, {})
    ELSE IF InstanceOf(val, "set")
    THEN R(Ref(base + 2), SetWrapper(heap[val.n], base), seen, {})
    ELSE R(val, <<>>, SeenSet(seen, val), {})
  ELSE R(val, <<>>, seen, {})

(* --------------------------- JSON.stringify --------------------------- *)
Top == stack[Len(stack)]
TopObj == heap[Top.obj]

\* the property the walk is at has not been serialized yet
HasPending ==
  \/ pc = "call"
  \/ pc = "walk" /\ Top.idx <= Len(TopObj.vals)

\* holder[key]
Pending == IF pc = "call" THEN value ELSE TopObj.vals[Top.idx]

\* what precedes a member's text: the comma, and the key in a record
Prefix ==
  IF pc = "call" THEN ""
  ELSE (IF Top.first THEN "" ELSE ",")
       \o (IF TopObj.kind = "object" THEN Quote(TopObj.keys[Top.idx]) \o ":" ELSE "")

\* the stack with its innermost frame moved past the current property
Advance(emitted) ==
  IF pc = "call" THEN stack
  ELSE [stack EXCEPT ![Len(stack)] =
          [@ EXCEPT !.idx = @ + 1, !.first = @ /\ ~emitted]]

Open(o) == IF o.kind = "array" THEN "[" ELSE "{"
Close(o) == IF o.kind = "array" THEN "]" ELSE "}"

OnStack(r) == \E i \in 1..Len(stack) : stack[i].obj = r

\* SerializeJSONProperty(key, holder): the replacer is called on holder[key]
\* and what it returns is serialized: a literal is written, an object or an
\* array is opened (a TypeError if it is already open), undefined is left
\* out of a record and written as null in an array.
SerializeJSONProperty ==
  /\ pc \in {"call", "walk"}
  /\ HasPending
  /\ Len(stack) < StackLimit
  /\ LET r == Replacer(Pending)
         v == r.ret
         heap1 == heap \o r.alloc
     IN
     /\ heap' = heap1
     /\ seen' = r.seen
     /\ calls' = [f \in DOMAIN calls |-> IF f \in r.called THEN calls[f] + 1 ELSE calls[f]]
     /\ IF v.t = "ref" THEN
          IF OnStack(v.n)
          THEN /\ pc' = "TypeError"
               /\ UNCHANGED <<stack, out>>
          ELSE /\ stack' = Append(Advance(TRUE), [obj |-> v.n, idx |-> 1, first |-> TRUE])
               /\ out' = out \o Prefix \o Open(heap1[v.n])
               /\ pc' = "walk"
        ELSE IF v.t = "undefined" THEN
          /\ stack' = Advance(pc = "walk" /\ TopObj.kind = "array")
          /\ out' = IF pc = "walk" /\ TopObj.kind = "array"
                    THEN out \o Prefix \o "null" ELSE out
          /\ pc' = IF pc = "call" THEN "done" ELSE pc
        ELSE
          /\ stack' = Advance(TRUE)
          /\ out' = out \o Prefix \o Literal(v)
          /\ pc' = IF pc = "call" THEN "done" ELSE pc
  /\ UNCHANGED <<value, invokeFns, ncalls, history>>

\* the end of SerializeJSONObject / SerializeJSONArray: every property done
EndComposite ==
  /\ pc = "walk"
  /\ ~HasPending
  /\ out' = out \o Close(TopObj)
  /\ stack' = SubSeq(stack, 1, Len(stack) - 1)
  /\ pc' = IF Len(stack) = 1 THEN "done" ELSE "walk"
  /\ UNCHANGED <<heap, value, invokeFns, seen, calls, ncalls, history>>

\* the recursion meets the engine's stack limit: the call throws
StackOverflow ==
  /\ pc \in {"call", "walk"}
  /\ HasPending
  /\ Len(stack) >= StackLimit
  /\ pc' = "RangeError"
  /\ UNCHANGED <<heap, value, invokeFns, seen, stack, out, calls, ncalls, history>>

(* ------------------------------ toJSON -------------------------------- *)
Ended == pc \in {"done", "RangeError", "TypeError"}

\* ToJSON with seen kept from the call before (a registry outside the function)
ToJSONSharedSeen(v, f) ==
  /\ value' = v
  /\ invokeFns' = f
  /\ seen' = seen
  /\ stack' = <<>>
  /\ out' = ""
  /\ pc' = "call"
  /\ calls' = [r \in DOMAIN calls |-> 0]
  /\ ncalls' = ncalls + 1
  /\ history' = IF pc \in {"done", "RangeError", "TypeError"}
                THEN history \cup {<<value, invokeFns, pc, out>>} ELSE history
  /\ UNCHANGED heap

\* lines 238-240: a call of toJSON; seen is a new Map
ToJSON(v, f) ==
  /\ value' = v
  /\ invokeFns' = f
  /\ seen' = NewMap
  /\ stack' = <<>>
  /\ out' = ""
  /\ pc' = "call"
  /\ calls' = [r \in DOMAIN calls |-> 0]
  /\ ncalls' = ncalls + 1
  /\ history' = IF Ended THEN history \cup {<<value, invokeFns, pc, out>>} ELSE history
  /\ UNCHANGED heap

(* --------------------------- the input graphs -------------------------- *)
\* the values a caller passes: the objects of the input graph
Roots == {Ref(r) : r \in 1..NRefs}

\* what an entry of an input object may hold
ChildVals == {Null, Num(1)} \cup Roots
SetVals == {Null, Num(1), Num(2), Ref(1)}
FnRets == {Num(5), Undefined} \cup Roots

SeqsUpTo(S, n) == UNION {[1..k -> S] : k \in 0..n}

IsInjective(q) == \A i, j \in 1..Len(q) : q[i] = q[j] => i = j

\* the field names of object r's record
KeysOf(r) == IF r = 1 THEN <<"a", "b", "c", "d">> ELSE <<"v", "w", "x", "y">>

\* the keys of a Map, in insertion order: a string, an object, null
MapKeys == <<Str("k"), Ref(NRefs), Null>>

\* the objects r can be with at most n entries
Shapes(r, n) ==
  {Record(SubSeq(KeysOf(r), 1, Len(vs)), vs) : vs \in SeqsUpTo(ChildVals, n)}
  \cup {Array(vs) : vs \in SeqsUpTo(ChildVals, n)}
  \cup {SetObj(vs) : vs \in {q \in SeqsUpTo(SetVals, n) : IsInjective(q)}}
  \cup {MapObj(SubSeq(MapKeys, 1, Len(vs)), vs) : vs \in SeqsUpTo(ChildVals, n)}
  \cup {Function(0, r0) : r0 \in FnRets}
  \cup {Function(len, Undefined) : len \in 1..MaxParams}

\* object r of the input holds at most KidsOf(r) entries: the graphs are
\* listed by decreasing size of their objects
KidsOf(r) == IF MaxKids >= r - 1 THEN MaxKids - (r - 1) ELSE 0

RECURSIVE HeapsOf(_, _)
HeapsOf(n, less) ==
  IF n = 0 THEN {<<>>}
  ELSE {Append(h, o) : h \in HeapsOf(n - 1, less),
                       o \in Shapes(n, IF KidsOf(n) > less THEN KidsOf(n) - less ELSE 0)}

InitHeaps == HeapsOf(NRefs, 0)

\* the smaller graphs of the behaviours with several calls
InitHeapsCalls == HeapsOf(NRefs, 1)

InitWith(heaps) ==
  /\ heap \in heaps
  /\ value = Null
  /\ invokeFns = FALSE
  /\ seen = NewMap
  /\ stack = <<>>
  /\ out = ""
  /\ pc = "idle"
  /\ calls = [r \in 1..NRefs |-> 0]
  /\ ncalls = 0
  /\ history = {}

Init == InitWith(InitHeaps)
InitCalls == InitWith(InitHeapsCalls)

\* the caller's first call, on the first (the largest) object of the graph
Call == \E f \in BOOLEAN : pc = "idle" /\ ToJSON(Ref(1), f)

\* the caller's first call, on any other object of the graph
CallOther == \E v \in Roots \ {Ref(1)}, f \in BOOLEAN : pc = "idle" /\ ToJSON(v, f)

\* a later call, after one ended
CallAgain == \E v \in Roots, f \in BOOLEAN : Ended /\ ncalls < MaxCalls /\ ToJSON(v, f)

Next ==
  \/ Call
  \/ SerializeJSONProperty
  \/ EndComposite
  \/ StackOverflow

NextCalls ==
  \/ Next
  \/ CallOther
  \/ CallAgain

\* one call of toJSON on any input graph
Spec == Init /\ [][Next]_vars

\* a sequence of calls of toJSON on one input graph
SpecCalls == InitCalls /\ [][NextCalls]_vars

(* ============================= the claims ============================= *)
\* the next step is a call of the replacer on Pending
Visiting == pc \in {"call", "walk"} /\ HasPending /\ Len(stack) < StackLimit

IsFunction(v) == v.t = "ref" /\ heap[v.n].kind = "function"
IsPlain(v) == v.t = "ref" /\ heap[v.n].kind \in {"object", "array"}

\* the text of a cyclic-reference marker carrying id i, as a JSON string
Marker(i) == "\"[[ cyclic ref *" \o ToString(i) \o " ]]\""

\* the step wrote text t for the current property and did not descend
Wrote(t) == out' = out \o Prefix \o t /\ stack' = Advance(TRUE)

\* the step opened the object at reference w for the current property
Opened(w) ==
  /\ stack' = Append(Advance(TRUE), [obj |-> w, idx |-> 1, first |-> TRUE])
  /\ out' = out \o Prefix \o Open(heap'[w])

\* the objects of the input graph that object r refers to
KidsIn(r) ==
  LET o == heap[r]
      held == {o.vals[i] : i \in 1..Len(o.vals)}
                \cup {o.mkeys[i] : i \in 1..Len(o.mkeys)}
                \cup {o.ret}
  IN {v.n : v \in {w \in held : w.t = "ref"}} \cap (1..NRefs)

RECURSIVE ReachIn(_, _)
ReachIn(S, n) ==
  IF n = 0 THEN S ELSE ReachIn(S \cup UNION {KidsIn(r) : r \in S}, n - 1)

\* object r is reachable from within its own contents
SelfReachable(r) == r \in ReachIn(KidsIn(r), NRefs)

(* ---- C1 ---- *)
\* C1: toJSON terminates on every finite graph, cycles through any composite
\* kind included: no call ends in the engine's stack overflow (or a TypeError).
C1_Terminates == pc \notin {"RangeError", "TypeError"}

(* ---- C2 ---- *)
\* C2: every occurrence of a primitive (string, number, boolean, null) is
\* written as its native literal, the second and later null included.
C2_PrimitivesAsLiterals ==
  [][(Visiting /\ Pending.t \in {"null", "boolean", "number", "string"})
       => Wrote(Literal(Pending))]_vars

(* ---- C3 ---- *)
\* the record {a: shared, b: shared} of the claim, shared = {v: 1}
SharedExample ==
  /\ value = Ref(1)
  /\ heap[1] = Record(<<"a", "b">>, <<Ref(2), Ref(2)>>)
  /\ heap[2] = Record(<<"v">>, <<Num(1)>>)

\* C3 as claimed: toJSON({a: shared, b: shared}) gives shared id 0 and
\* encodes b as "[[ cyclic ref *0 ]]".
C3_SharedGetsIdZero ==
  (pc = "done" /\ SharedExample)
    => /\ out = "{\"a\":{\"v\":1},\"b\":" \o Marker(0) \o "}"
       /\ seen[Ref(2)] = 0

\* the root is a record whose two fields hold the same record or array s
SharedRoot(s) ==
  /\ pc = "walk"
  /\ s # value.n
  /\ IsPlain(value) /\ IsPlain(Ref(s))
  /\ heap[value.n].kind = "object"
  /\ heap[value.n].vals = <<Ref(s), Ref(s)>>

\* C3, amended: the root record is the first composite visited and takes id
\* 0; shared, entered at field a, takes id 1, and field b is encoded as
\* "[[ cyclic ref *1 ]]"; toJSON({a: shared, b: shared}) returns
\* {"a":{"v":1},"b":"[[ cyclic ref *1 ]]"}.
C3_SharedGetsIdOne ==
  [][/\ \A s \in 1..NRefs :
          (SharedRoot(s) /\ Visiting /\ Len(stack) = 1 /\ Top.idx = 2)
            => /\ seen[value] = 0
               /\ seen[Ref(s)] = 1
               /\ Wrote(Marker(1))
     /\ (pc' = "done" /\ SharedExample')
          => out' = "{\"a\":{\"v\":1},\"b\":" \o Marker(1) \o "}"]_vars

C3_Witness ==
  /\ pc = "done" /\ SharedExample
  /\ out = "{\"a\":{\"v\":1},\"b\":\"[[ cyclic ref *1 ]]\"}"

(* ---- C4 ---- *)
\* C4: a Map or a Set is registered when first entered (next id, before its
\* contents) and every later occurrence of the same reference is encoded as
\* the marker with that id, without descending.
C4_MapSetRegistered ==
  [][(Visiting /\ (InstanceOf(Pending, "map") \/ InstanceOf(Pending, "set")))
       => IF Pending \in DOMAIN seen
          THEN Wrote(Marker(seen[Pending]))
          ELSE Pending \in DOMAIN seen' /\ seen'[Pending] = SeenSize(seen)]_vars

(* ---- C5 ---- *)
\* the call's root is a record or an array reachable from its own contents
SelfCyclicRoot ==
  /\ pc # "idle"
  /\ IsPlain(value)
  /\ SelfReachable(value.n)

\* C5: for such a root a, toJSON(a) terminates, a has id 0 before any child
\* is visited, and each inner occurrence of a is written as
\* "[[ cyclic ref *0 ]]" and not descended into.
C5_SelfCyclicRoot ==
  [][/\ SelfCyclicRoot' => pc' \notin {"RangeError", "TypeError"}
     /\ (SelfCyclicRoot' /\ pc' = "walk") => (value' \in DOMAIN seen' /\ seen'[value'] = 0)
     /\ (SelfCyclicRoot /\ Visiting /\ pc = "walk" /\ Pending = value)
          => Wrote(Marker(0))]_vars

(* ---- C6 ---- *)
\* C6: with invokeFns, each occurrence of a zero-parameter function is
\* called exactly once and replaced by the record {kind: "Function", result:
\* <what it returned>}, which the same walk, with the same registry, then
\* encodes; a function returning 5 gives {"kind":"Function","result":5}.
C6_ZeroParamInvoked ==
  [][/\ (Visiting /\ invokeFns /\ IsFunction(Pending) /\ heap[Pending.n].length = 0)
          => LET w == Len(heap) + 1 IN
               /\ calls' = [calls EXCEPT ![Pending.n] = @ + 1]
               /\ Len(heap') = w
               /\ heap'[w] = Record(<<"kind", "result">>,
                                    <<Str("Function"), heap[Pending.n].ret>>)
               /\ Opened(w)
               /\ out' = out \o Prefix \o "{"
               /\ seen' = seen
     /\ (pc' = "done" /\ invokeFns' /\ IsFunction(value') /\ heap[value'.n].length = 0
           /\ heap[value'.n].ret.t \in {"number", "string", "boolean"})
          => out' = "{\"kind\":\"Function\",\"result\":"
                      \o Literal(heap[value'.n].ret) \o "}"]_vars

C6_Witness ==
  /\ pc = "done" /\ invokeFns
  /\ value = Ref(1) /\ heap[1] = Function(0, Num(5))
  /\ calls[1] = 1
  /\ out = "{\"kind\":\"Function\",\"result\":5}"

(* ---- C7 ---- *)
\* C7: a function is never called when invokeFns is false or it declares a
\* parameter; it is then written as "[[ function params=N ]]", N its declared
\* parameter count: a 2-parameter function under either flag.
C7_PlaceholderNotCalled ==
  [][/\ (Visiting /\ IsFunction(Pending) /\ (~invokeFns \/ heap[Pending.n].length > 0))
          => /\ calls' = calls
             /\ heap' = heap
             /\ Wrote("\"[[ function params=" \o ToString(heap[Pending.n].length) \o " ]]\"")
     /\ \A f \in 1..NRefs : calls'[f] > 0 => (invokeFns' /\ heap[f].length = 0)
     /\ (pc' = "done" /\ IsFunction(value') /\ heap[value'.n].length = 2)
          => out' = "\"[[ function params=2 ]]\""]_vars

C7_Witness ==
  /\ pc = "done" /\ invokeFns
  /\ value = Ref(1) /\ heap[1] = Function(2, Undefined)
  /\ calls[1] = 0
  /\ out = "\"[[ function params=2 ]]\""

(* ---- C8 ---- *)
IsFlat(v) == v.t \in {"number", "string"}

RECURSIVE Joined(_, _)
\* the texts q[i..], comma-separated
Joined(q, i) ==
  IF i > Len(q) THEN ""
  ELSE q[i] \o (IF i < Len(q) THEN "," ELSE "") \o Joined(q, i + 1)

\* the claimed text of a Map / a Set whose keys and values are numbers and strings
FlatMapText(o) ==
  "{\"kind\":\"Map\",\"value\":["
    \o Joined([i \in 1..Len(o.vals) |->
                 "[" \o Literal(o.mkeys[i]) \o "," \o Literal(o.vals[i]) \o "]"], 1)
    \o "]}"
FlatSetText(o) ==
  "{\"kind\":\"Set\",\"value\":["
    \o Joined([i \in 1..Len(o.vals) |-> Literal(o.vals[i])], 1) \o "]}"

\* C8: a Map is replaced by the record {kind: "Map", value: [[key, value],
\* ...]}, one pair per entry in insertion order, a Set by {kind: "Set",
\* value: [element, ...]} in iteration order, and the same walk encodes the
\* keys, values and elements; the map ("k",1) gives
\* {"kind":"Map","value":[["k",1]]} and the set of 1,2 gives
\* {"kind":"Set","value":[1,2]}.
C8_MapSetRecords ==
  [][/\ (Visiting /\ InstanceOf(Pending, "map") /\ Pending \notin DOMAIN seen)
          => LET o == heap[Pending.n]
                 n == Len(o.vals)
                 base == Len(heap)
             IN /\ Len(heap') = base + n + 2
                /\ \A i \in 1..n : heap'[base + i] = Array(<<o.mkeys[i], o.vals[i]>>)
                /\ heap'[base + n + 1] = Array([i \in 1..n |-> Ref(base + i)])
                /\ heap'[base + n + 2] =
                     Record(<<"kind", "value">>, <<Str("Map"), Ref(base + n + 1)>>)
                /\ Opened(base + n + 2)
     /\ (Visiting /\ InstanceOf(Pending, "set") /\ Pending \notin DOMAIN seen)
          => LET o == heap[Pending.n]
                 base == Len(heap)
             IN /\ Len(heap') = base + 2
                /\ heap'[base + 1] = Array(o.vals)
                /\ heap'[base + 2] =
                     Record(<<"kind", "value">>, <<Str("Set"), Ref(base + 1)>>)
                /\ Opened(base + 2)
     /\ (pc' = "done" /\ InstanceOf(value', "map")
           /\ \A i \in 1..Len(heap[value'.n].vals) :
                IsFlat(heap[value'.n].mkeys[i]) /\ IsFlat(heap[value'.n].vals[i]))
          => out' = FlatMapText(heap[value'.n])
     /\ (pc' = "done" /\ InstanceOf(value', "set")
           /\ \A i \in 1..Len(heap[value'.n].vals) : IsFlat(heap[value'.n].vals[i]))
          => out' = FlatSetText(heap[value'.n])]_vars

C8_Witness ==
  /\ pc = "done"
  /\ value = Ref(1) /\ heap[1] = Array(<<Ref(2), Ref(1)>>)
  /\ heap[2] = MapObj(<<Str("k")>>, <<Num(1)>>)
  /\ out = "[{\"kind\":\"Map\",\"value\":[[\"k\",1]]},\"[[ cyclic ref *0 ]]\"]"

(* ---- C9 ---- *)
\* C9: every call starts with an empty registry and nothing of an earlier
\* call survives: a call on the value and flag of an earlier call ends as
\* that call did, with the same text, its ids starting again from 0.
C9_FreshRegistryPerCall ==
  /\ pc = "call" => seen = NewMap
  /\ \A k \in DOMAIN seen : seen[k] < SeenSize(seen)
  /\ Ended => \A h \in history :
                (h[1] = value /\ h[2] = invokeFns) => (h[3] = pc /\ h[4] = out)

C9_Witness ==
  /\ pc = "done" /\ ncalls = 2
  /\ value = Ref(1) /\ heap[1] = Record(<<"a">>, <<Ref(1)>>)
  /\ out = "{\"a\":\"[[ cyclic ref *0 ]]\"}"
  /\ <<value, invokeFns, pc, out>> \in history

(* ---- C10 ---- *)
\* the ids are distinct and are exactly 0..size-1
RegistryInjective ==
  /\ \A j, k \in DOMAIN seen : seen[j] = seen[k] => j = k
  /\ {seen[k] : k \in DOMAIN seen} = 0..(SeenSize(seen) - 1)

\* the record [x, y] of the claim, x = {} and y = {}
DistinctEmptyExample ==
  /\ value = Ref(1)
  /\ heap[1] = Array(<<Ref(2), Ref(3)>>)
  /\ heap[2] = Record(<<>>, <<>>)
  /\ heap[3] = Record(<<>>, <<>>)

\* C10: during one walk the registry is injective with ids 0..size-1, an id
\* never changes, a new key is the reference being entered and takes the
\* next id, and a reference that was not entered before is never written
\* as a marker: toJSON([x, y]) with x = {} and y = {} is [{},{}].
C10_RegistryByIdentity ==
  [][/\ RegistryInjective'
     /\ pc' # "call" => \A k \in DOMAIN seen : k \in DOMAIN seen' /\ seen'[k] = seen[k]
     /\ \A k \in DOMAIN seen' \ DOMAIN seen : k = Pending /\ seen'[k] = SeenSize(seen)
     /\ (Visiting /\ Pending.t = "ref" /\ Pending \notin DOMAIN seen)
          => \A i \in 0..SeenSize(seen) : out' # out \o Prefix \o Marker(i)
     /\ (pc' = "done" /\ DistinctEmptyExample') => out' = "[{},{}]"]_vars

C10_Witness ==
  /\ pc = "done" /\ DistinctEmptyExample
  /\ out = "[{},{}]"
  /\ seen[Ref(2)] = 1 /\ seen[Ref(3)] = 2

====
